---- MODULE Spec2Model ----
(***************************************************************************)
(* Decidr (src/Decidr.py): a Streamlit chat front-end over a remote        *)
(* chat-completion API.  The model follows one user session.  Every user   *)
(* action triggers one run of main(); a run that calls query_ai is split   *)
(* at the two points where the outside world decides what happens next:    *)
(* the credential lookup of get_headers and the return of requests.post.   *)
(*                                                                         *)
(* Text is a sequence of tokens, so that string concatenation (the         *)
(* f-strings of lines 75 and 109) is sequence concatenation and not the    *)
(* identity.  A JSON value is a record [t, v] with a type tag t.           *)
(***************************************************************************)
EXTENDS Integers, Sequences, FiniteSets, TLC

VARIABLES
    messages,          \* st.session_state.messages
    decision_context,  \* st.session_state.decision_context
    current_decision,  \* st.session_state.current_decision
    pc,                \* position of the running script: "idle", "headers", "post"
    ai_messages,       \* the list handed to query_ai by the running action
    response,          \* what requests.post / response.json() produced
    op,                \* the user action of the current (or last) run
    arg,               \* its text input
    pre,               \* messages when that run started
    calls,             \* HTTP requests issued by that run
    errors,            \* st.error calls made by that run
    status,            \* "running", "done", "stopped" (st.stop), "raised" (uncaught exception)
    rendered,          \* widgets the last run put on screen: "full" or "partial"
    hf_token           \* st.secrets["HF_TOKEN"] as that run found it: "unread", "found", "missing"

vars == <<messages, decision_context, current_decision, pc, ai_messages,
          response, op, arg, pre, calls, errors, status, rendered, hf_token>>

session == <<messages, decision_context, current_decision>>

----------------------------------------------------------------------------
(* Bounds *)

MaxMsgs == 4

MaxTextLen == 1

Alphabet == {"a", "b"}

RECURSIVE SeqsUpTo(_, _)
SeqsUpTo(S, n) ==
    IF n = 0 THEN {<<>>}
    ELSE LET shorter == SeqsUpTo(S, n - 1)
         IN  shorter \cup {Append(s, x) : s \in shorter, x \in S}

\* every text of the model
Texts == SeqsUpTo(Alphabet, MaxTextLen)

\* what the user can type into the text area
ContextTexts == Texts

\* what the user can type into the chat input
PromptTexts == SeqsUpTo({"a"}, MaxTextLen)

\* what the remote model can answer
ReplyTexts == SeqsUpTo({"b"}, MaxTextLen)

----------------------------------------------------------------------------
(* Messages and fixed texts *)

Message(role, content) == [role |-> role, content |-> content]

base_prompt == <<"You are Decidr, an expert decision-making assistant. ...">>

ContextDelimiter == <<"\n\nCurrent decision context: ">>

SeedPrefix == <<"I need help deciding: ">>

\* slip: the context section is appended even when there is no context
create_system_prompt_AlwaysAppends(ctx) == base_prompt \o ContextDelimiter \o ctx

\* lines 62-77
create_system_prompt(ctx) ==
    IF ctx # <<>> THEN base_prompt \o ContextDelimiter \o ctx ELSE base_prompt

\* slip: the bare context is sent, without the lead-in
SeedText_Bare(ctx) == ctx

\* the f-string of lines 109 and 118
SeedText(ctx) == SeedPrefix \o ctx

example_prompt ==
    <<  <<"I'm trying to decide whether to move to a new city for a job opportunity. Can you help me think through this decision?">>,
        <<"I'm having trouble choosing between different college majors. How should I approach this decision?">>,
        <<"I'm considering changing careers but I'm not sure if it's the right move. Can you help me evaluate this?">> >>

----------------------------------------------------------------------------
(* JSON values and the Python operations main() applies to them *)

JNull == [t |-> "null", v |-> <<>>]
JNum(n) == [t |-> "num", v |-> <<n>>]
JStr(s) == [t |-> "str", v |-> s]
JList(l) == [t |-> "list", v |-> l]
\* a dict is its sequence of <<key, value>> pairs, keys distinct
JObj(pairs) == [t |-> "obj", v |-> pairs]
\* the marker of a Python exception raised while evaluating an expression
Raised == [t |-> "raise", v |-> <<>>]

HasKey(j, key) == j.t = "obj" /\ \E i \in 1..Len(j.v) : j.v[i][1] = key

\* bool(j)
Truthy(j) ==
    IF j.t = "num" THEN j.v # <<0>> ELSE j.t # "null" /\ j.v # <<>>

\* key in j: "true", "false", or "raise" (TypeError: a number is not iterable)
In(key, j) ==
    CASE j.t = "obj"  -> IF HasKey(j, key) THEN "true" ELSE "false"
      [] j.t = "list" -> IF \E i \in 1..Len(j.v) : j.v[i].t = "str" /\ j.v[i].v = <<key>>
                         THEN "true" ELSE "false"
      [] j.t = "str"  -> IF \E i \in 1..Len(j.v) : j.v[i] = key THEN "true" ELSE "false"
      [] OTHER        -> "raise"

\* j[key] for a string key: KeyError or TypeError unless j is a dict holding key
GetKey(j, key) ==
    IF HasKey(j, key)
    THEN j.v[CHOOSE i \in 1..Len(j.v) : j.v[i][1] = key][2]
    ELSE Raised

\* j[0]: IndexError on an empty list or string, KeyError on a dict, TypeError otherwise
GetFirst(j) ==
    CASE j.t = "list" /\ j.v # <<>> -> j.v[1]
      [] j.t = "str" /\ j.v # <<>>  -> JStr(<<j.v[1]>>)
      [] OTHER                      -> Raised

\* response["choices"][0]["message"]["content"]
ContentOf(j) == GetKey(GetKey(GetFirst(GetKey(j, "choices")), "message"), "content")

\* a well-formed completion carrying text
Completion(text) ==
    JObj(<< <<"choices", JList(<< JObj(<< <<"message", JObj(<< <<"content", JStr(text)>> >>)>> >>) >>)>> >>)

\* the parsed bodies the remote service is taken to send
Bodies ==
    {Completion(text) : text \in ReplyTexts}
    \cup { JNull,
           JObj(<<>>),
           JObj(<< <<"error", JStr(<<"e">>)>> >>),
           JObj(<< <<"choices", JList(<<>>)>> >>),
           JObj(<< <<"choices", JList(<< JObj(<<>>) >>)>> >>),
           JObj(<< <<"choices", JList(<< JObj(<< <<"message", JObj(<<>>)>> >>) >>)>> >>),
           JObj(<< <<"choices", JNull>> >>),
           JList(<< JStr(<<"choices">>) >>),
           JNum(5) }

\* what lines 43-45 produce: an exception class, or the parsed body
NoResponse == [exc |-> "none", body |-> JNull]

Responses ==
    { [exc |-> e, body |-> JNull] : e \in {"RequestException", "JSONDecodeError"} }
    \cup { [exc |-> "", body |-> b] : b \in Bodies }

\* the value query_ai returns to main(): None after a caught exception
QueryResult(r) == IF r.exc = "" THEN r.body ELSE JNull

\* the test of lines 115 and 168: response and "choices" in response
HasChoices(j) == IF Truthy(j) THEN In("choices", j) ELSE "false"

\* how the lines after query_ai end: "ok", "fail" (test false) or "raise"
Extraction(j) ==
    CASE HasChoices(j) = "raise" -> "raise"
      [] HasChoices(j) = "false" -> "fail"
      [] OTHER -> IF ContentOf(j) = Raised THEN "raise" ELSE "ok"

----------------------------------------------------------------------------
Init ==
    /\ messages = <<>>
    /\ decision_context = <<>>
    /\ current_decision = <<>>
    /\ pc = "idle"
    /\ ai_messages = <<>>
    /\ response = NoResponse
    /\ op = "init"
    /\ arg = <<>>
    /\ pre = <<>>
    /\ calls = 0
    /\ errors = 0
    /\ status = "done"
    /\ rendered = "full"
    /\ hf_token = "unread"

\* what every run sets when it starts
Begin(name, text) ==
    /\ op' = name
    /\ arg' = text
    /\ pre' = messages
    /\ calls' = 0
    /\ errors' = 0
    /\ response' = NoResponse
    /\ hf_token' = "unread"

\* slip: editing the context also moves current_decision
SetContext_SetsDecision(text) ==
    /\ pc = "idle"
    /\ text # decision_context
    /\ decision_context' = text
    /\ current_decision' = text
    /\ Begin("SetContext", text)
    /\ ai_messages' = <<>>
    /\ status' = "done"
    /\ rendered' = "full"
    /\ UNCHANGED <<messages, pc>>

\* lines 91-99: the text area was edited, no button pressed, no chat input
SetContext(text) ==
    /\ pc = "idle"
    /\ text # decision_context
    /\ decision_context' = text
    /\ Begin("SetContext", text)
    /\ ai_messages' = <<>>
    /\ status' = "done"
    /\ rendered' = "full"
    /\ UNCHANGED <<messages, current_decision, pc>>

initial_messages(ctx) ==
    << Message("system", create_system_prompt(ctx)),
       Message("user", SeedText(ctx)) >>

\* slip: current_decision is set only when there is a context to decide on
StartNewDecision_SkipsEmpty ==
    /\ pc = "idle"
    /\ messages' = <<>>
    /\ Begin("StartNewDecision", decision_context)
    /\ IF decision_context # <<>>
       THEN /\ current_decision' = decision_context
            /\ ai_messages' = initial_messages(decision_context)
            /\ pc' = "headers"
            /\ status' = "running"
            /\ UNCHANGED rendered
       ELSE /\ ai_messages' = <<>>
            /\ pc' = "idle"
            /\ status' = "done"
            /\ rendered' = "full"
            /\ UNCHANGED current_decision
    /\ UNCHANGED decision_context

\* lines 102-113 and 121: the button, up to the call of query_ai
StartNewDecision ==
    /\ pc = "idle"
    /\ messages' = <<>>
    /\ current_decision' = decision_context
    /\ Begin("StartNewDecision", decision_context)
    /\ IF decision_context # <<>>
       THEN /\ ai_messages' = initial_messages(decision_context)
            /\ pc' = "headers"
            /\ status' = "running"
            /\ UNCHANGED rendered
       ELSE /\ ai_messages' = <<>>
            /\ pc' = "idle"
            /\ status' = "done"
            /\ rendered' = "full"
    /\ UNCHANGED decision_context

\* slip: clearing the conversation also forgets the decision
ClearConversation_ResetsDecision ==
    /\ pc = "idle"
    /\ rendered = "full"
    /\ messages' = <<>>
    /\ current_decision' = <<>>
    /\ Begin("ClearConversation", <<>>)
    /\ ai_messages' = <<>>
    /\ status' = "done"
    /\ rendered' = "full"
    /\ UNCHANGED <<decision_context, pc>>

\* lines 124-126
ClearConversation ==
    /\ pc = "idle"
    /\ rendered = "full"
    /\ messages' = <<>>
    /\ Begin("ClearConversation", <<>>)
    /\ ai_messages' = <<>>
    /\ status' = "done"
    /\ rendered' = "full"
    /\ UNCHANGED <<decision_context, current_decision, pc>>

\* slip: only the new user message is sent, not the history
BuildRequest_LatestOnly(ctx, msgs) ==
    <<Message("system", create_system_prompt(ctx)), msgs[Len(msgs)]>>

\* lines 160-161
BuildRequest(ctx, msgs) ==
    <<Message("system", create_system_prompt(ctx))>> \o msgs

\* lines 151-165: the chat input, up to the call of query_ai
SubmitMessage(prompt) ==
    /\ pc = "idle"
    /\ rendered = "full"
    /\ prompt # <<>>
    /\ Len(messages) + 2 <= MaxMsgs
    /\ messages' = Append(messages, Message("user", prompt))
    /\ Begin("SubmitMessage", prompt)
    /\ ai_messages' = BuildRequest(decision_context, messages')
    /\ pc' = "headers"
    /\ status' = "running"
    /\ UNCHANGED <<decision_context, current_decision, rendered>>

\* slip: an example click goes on to query the model, as the chat input does
ExampleClick_Queries(k) ==
    /\ pc = "idle"
    /\ rendered = "full"
    /\ messages = <<>>
    /\ messages' = Append(messages, Message("user", example_prompt[k]))
    /\ Begin("ExampleClick", example_prompt[k])
    /\ ai_messages' = BuildRequest(decision_context, messages')
    /\ pc' = "headers"
    /\ status' = "running"
    /\ UNCHANGED <<decision_context, current_decision, rendered>>

\* lines 178-205: one of the three example buttons
ExampleClick(k) ==
    /\ pc = "idle"
    /\ rendered = "full"
    /\ messages = <<>>
    /\ messages' = Append(messages, Message("user", example_prompt[k]))
    /\ Begin("ExampleClick", example_prompt[k])
    /\ ai_messages' = <<>>
    /\ status' = "done"
    /\ rendered' = "full"
    /\ UNCHANGED <<decision_context, current_decision, pc>>

\* a run cut short inside the sidebar block renders nothing below it
RenderedAfterAbort == IF op = "StartNewDecision" THEN "partial" ELSE "full"

\* slip: no st.stop(), the request goes out without a usable credential
get_headers_SendsAnyway(token) ==
    /\ pc = "headers"
    /\ hf_token' = IF token THEN "found" ELSE "missing"
    /\ pc' = "post"
    /\ calls' = calls + 1
    /\ errors' = IF token THEN errors ELSE errors + 1
    /\ UNCHANGED <<status, rendered>>
    /\ UNCHANGED <<session, ai_messages, response, op, arg, pre>>

\* lines 17-29 and 43: the credential lookup, then the POST is sent
get_headers(token) ==
    /\ pc = "headers"
    /\ hf_token' = IF token THEN "found" ELSE "missing"
    /\ IF token
       THEN /\ pc' = "post"
            /\ calls' = calls + 1
            /\ UNCHANGED <<errors, status, rendered>>
       ELSE /\ pc' = "idle"
            /\ errors' = errors + 1
            /\ status' = "stopped"
            /\ rendered' = RenderedAfterAbort
            /\ UNCHANGED calls
    /\ UNCHANGED <<session, ai_messages, response, op, arg, pre>>

\* st.error calls of query_ai for response r (lines 46-51)
QueryErrors(r) == IF r.exc = "" THEN 0 ELSE 1

\* slip: the request list, system message included, is what gets stored
StoredAfterStart_KeepsSystem(ctx, ai_message) ==
    Append(initial_messages(ctx), Message("assistant", ai_message))

\* slip: only the reply is stored, not the seeded user message
StoredAfterStart_ReplyOnly(ctx, ai_message) ==
    << Message("assistant", ai_message) >>

\* lines 117-120
StoredAfterStart(ctx, ai_message) ==
    << Message("user", SeedText(ctx)), Message("assistant", ai_message) >>

\* slip: the seeded user message is stored before the call, as the chat block does
AfterStart_KeepsSeed(msgs, ctx, result) ==
    IF Extraction(result) = "ok"
    THEN StoredAfterStart(ctx, ContentOf(result).v)
    ELSE <<Message("user", SeedText(ctx))>>

\* lines 115-120: messages once query_ai has returned result to the button's block
AfterStart(msgs, ctx, result) ==
    IF Extraction(result) = "ok"
    THEN StoredAfterStart(ctx, ContentOf(result).v)
    ELSE msgs

\* lines 43-51 and 115-121: the POST returns inside StartNewDecision
StartReply(r) ==
    /\ pc = "post"
    /\ op = "StartNewDecision"
    /\ response' = r
    /\ pc' = "idle"
    /\ errors' = errors + QueryErrors(r)
    /\ LET result == QueryResult(r)
           how == Extraction(result)
       IN  /\ messages' = AfterStart(messages, arg, result)
           /\ status' = IF how = "raise" THEN "raised" ELSE "done"
           /\ rendered' = IF how = "raise" THEN RenderedAfterAbort ELSE "full"
    /\ UNCHANGED <<decision_context, current_decision, ai_messages, op, arg, pre, calls, hf_token>>

\* slip: the reply is displayed but never stored
AfterSubmit_DropsReply(msgs, result) == msgs

\* slip: a failed call takes the unanswered user message back out
AfterSubmit_RollsBack(msgs, result) ==
    IF Extraction(result) = "ok"
    THEN Append(msgs, Message("assistant", ContentOf(result).v))
    ELSE SubSeq(msgs, 1, Len(msgs) - 1)

\* slip: the reply overwrites the last entry instead of following it
AfterSubmit_ReplacesLast(msgs, result) ==
    IF Extraction(result) = "ok"
    THEN Append(SubSeq(msgs, 1, Len(msgs) - 1), Message("assistant", ContentOf(result).v))
    ELSE msgs

\* lines 168-173: messages once query_ai has returned result to the chat block
AfterSubmit(msgs, result) ==
    IF Extraction(result) = "ok"
    THEN Append(msgs, Message("assistant", ContentOf(result).v))
    ELSE msgs

\* st.error of line 175
SubmitErrors(how) == IF how = "fail" THEN 1 ELSE 0

\* slip: a failed request is sent again
SubmitReply_Retries(r) ==
    /\ pc = "post"
    /\ op = "SubmitMessage"
    /\ response' = r
    /\ pc' = IF r.exc = "" THEN "idle" ELSE "headers"
    /\ LET result == QueryResult(r)
           how == Extraction(result)
       IN  /\ messages' = AfterSubmit(messages, result)
           /\ errors' = errors + QueryErrors(r) + SubmitErrors(how)
           /\ status' = IF r.exc # "" THEN "running"
                        ELSE IF how = "raise" THEN "raised" ELSE "done"
           /\ rendered' = IF how = "raise" THEN RenderedAfterAbort ELSE "full"
    /\ UNCHANGED <<decision_context, current_decision, ai_messages, op, arg, pre, calls, hf_token>>

\* lines 43-51 and 168-175: the POST returns inside SubmitMessage
SubmitReply(r) ==
    /\ pc = "post"
    /\ op = "SubmitMessage"
    /\ response' = r
    /\ pc' = "idle"
    /\ LET result == QueryResult(r)
           how == Extraction(result)
       IN  /\ messages' = AfterSubmit(messages, result)
           /\ errors' = errors + QueryErrors(r) + SubmitErrors(how)
           /\ status' = IF how = "raise" THEN "raised" ELSE "done"
           /\ rendered' = IF how = "raise" THEN RenderedAfterAbort ELSE "full"
    /\ UNCHANGED <<decision_context, current_decision, ai_messages, op, arg, pre, calls, hf_token>>

Next ==
    \/ \E text \in ContextTexts : SetContext(text)
    \/ StartNewDecision
    \/ ClearConversation
    \/ \E prompt \in PromptTexts : SubmitMessage(prompt)
    \/ \E k \in 1..3 : ExampleClick(k)
    \/ \E token \in BOOLEAN : get_headers(token)
    \/ \E r \in Responses : StartReply(r)
    \/ \E r \in Responses : SubmitReply(r)

Spec == Init /\ [][Next]_vars

----------------------------------------------------------------------------
(* Vocabulary of the properties *)

Roles(msgs) == {msgs[i].role : i \in 1..Len(msgs)}

\* user, assistant, user, assistant, ...
Alternates(msgs) ==
    \A i \in 1..Len(msgs) : msgs[i].role = IF i % 2 = 1 THEN "user" ELSE "assistant"

\* complete turns only: the history a run of successful SubmitMessage calls builds
Paired(msgs) == Alternates(msgs) /\ Len(msgs) % 2 = 0

\* the run of action name is over
Finished(name) == op = name /\ pc = "idle"

\* the run sent its request and the POST has returned
CallReturned == pc = "idle" /\ calls = 1

\* the texts for which the response is a well-formed completion
ReturnedTexts == {text \in Texts : response = [exc |-> "", body |-> Completion(text)]}

\* query_ai returned None, or a result in which 'choices' is not a key
NoResultOrNoChoices ==
    \/ response.exc # ""
    \/ response.body.t = "null"
    \/ \A i \in 1..Len(response.body.v) :
          response.body.t = "obj" => response.body.v[i][1] # "choices"

----------------------------------------------------------------------------
(* C1: no message with role "system" is ever stored in messages; while a   *)
(* run is inside query_ai the request it built starts with the one system  *)
(* message, built from the context of that moment.                         *)
C1_NoSystemMessageStored ==
    /\ "system" \notin Roles(messages)
    /\ pc # "idle" =>
          /\ ai_messages[1].role = "system"
          /\ "system" \notin Roles(Tail(ai_messages))

C1_Witness ==
    /\ pc = "post"
    /\ op = "SubmitMessage"
    /\ Len(messages) >= 3
    /\ ai_messages[1] = [role |-> "system",
                         content |-> base_prompt \o ContextDelimiter \o decision_context]
    /\ decision_context # <<>>

(* C2: a SubmitMessage whose call succeeds leaves the history it found     *)
(* with two entries added, the user message with the submitted text and    *)
(* then the assistant message with the returned text; the length grows by  *)
(* exactly 2, so a history of complete user/assistant turns (the empty one *)
(* included) stays one: strict alternation starting with user.             *)
C2_SuccessfulSubmitAddsPair ==
    \A text \in ReturnedTexts :
        Finished("SubmitMessage") =>
            /\ messages = pre \o << [role |-> "user", content |-> arg],
                                    [role |-> "assistant", content |-> text] >>
            /\ Len(messages) = Len(pre) + 2
            /\ Paired(pre) => Paired(messages)

C2_Witness ==
    /\ Finished("SubmitMessage")
    /\ ReturnedTexts # {}
    /\ Len(pre) = 2
    /\ Len(messages) = 4
    /\ Paired(messages)
    /\ messages[1].content = <<"a">>

(* C3: a SubmitMessage(X) whose call fails (no result, or a result without *)
(* 'choices') leaves exactly the history it found followed by the one user *)
(* message X.                                                              *)
C3_FailedSubmitKeepsUserMessage ==
    (Finished("SubmitMessage") /\ CallReturned /\ NoResultOrNoChoices) =>
        messages = Append(pre, [role |-> "user", content |-> arg])

C3_Witness ==
    /\ Finished("SubmitMessage")
    /\ CallReturned
    /\ response.exc = "RequestException"
    /\ Len(pre) = 2
    /\ Len(messages) = 3
    /\ messages[3] = [role |-> "user", content |-> <<"a">>]

(* C4: StartNewDecision with an empty context leaves messages empty and    *)
(* never reaches query_ai; with a non-empty context c and a successful     *)
(* call, messages is exactly the user message "I need help deciding: c"    *)
(* and the assistant message with the returned text, whatever was stored   *)
(* before.                                                                 *)
C4_StartNewDecisionResult ==
    op = "StartNewDecision" =>
        /\ arg = <<>> => pc = "idle" /\ calls = 0 /\ messages = <<>> /\ status = "done"
        /\ \A text \in ReturnedTexts :
              (arg # <<>> /\ pc = "idle") =>
                  messages = << [role |-> "user",
                                 content |-> <<"I need help deciding: ">> \o arg],
                                [role |-> "assistant", content |-> text] >>

C4_Witness ==
    /\ Finished("StartNewDecision")
    /\ arg = <<"a">>
    /\ ReturnedTexts = {<<"b">>}
    /\ Len(pre) = 3
    /\ Len(messages) = 2

(* C5: StartNewDecision with a non-empty context whose call fails leaves   *)
(* messages empty, whatever was stored before.                             *)
C5_FailedStartLeavesEmpty ==
    (Finished("StartNewDecision") /\ arg # <<>> /\ CallReturned /\ ReturnedTexts = {}) =>
        messages = <<>>

C5_Witness ==
    /\ Finished("StartNewDecision")
    /\ arg # <<>>
    /\ CallReturned
    /\ response.exc = "RequestException"
    /\ pre # <<>>
    /\ messages = <<>>

(* C6: whenever the call made by SubmitMessage or StartNewDecision fails   *)
(* (exception in the client, or a body that is not a completion), the run  *)
(* reports it to the user: by st.error, or at least by the exception box   *)
(* Streamlit draws for a run that ended in an uncaught exception.          *)
C6_EveryFailedCallIsReported ==
    (op \in {"SubmitMessage", "StartNewDecision"} /\ CallReturned /\ ReturnedTexts = {}) =>
        (errors >= 1 \/ status = "raised")

(* C7: a parsed body that is not of the shape choices[0].message.content   *)
(* is handled as a failure by SubmitMessage and StartNewDecision: no       *)
(* assistant message is stored and the run is not ended by an uncaught     *)
(* exception.                                                              *)
C7_UnexpectedShapeIsHandled ==
    (/\ op \in {"SubmitMessage", "StartNewDecision"}
     /\ CallReturned
     /\ response.exc = ""
     /\ ReturnedTexts = {}) =>
        /\ status = "done"
        /\ "assistant" \notin Roles(SubSeq(messages, Len(pre) + 1, Len(messages)))

(* C8: an ExampleClick happens only on an empty history, appends the one   *)
(* user message with the fixed text of the clicked example, sends no       *)
(* request and leaves decision_context and current_decision as they were.  *)
C8_ExampleClickAppendsOnly ==
    [][op' = "ExampleClick" =>
          /\ messages = <<>>
          /\ \E k \in 1..3 :
                /\ arg' = example_prompt[k]
                /\ messages' = << [role |-> "user", content |-> example_prompt[k]] >>
          /\ Len(example_prompt[1]) > 0
          /\ Cardinality({example_prompt[k] : k \in 1..3}) = 3
          /\ pc' = "idle"
          /\ calls' = 0
          /\ decision_context' = decision_context
          /\ current_decision' = current_decision]_vars

C8_Witness ==
    /\ Finished("ExampleClick")
    /\ messages = << [role |-> "user", content |-> example_prompt[1]] >>
    /\ pre = <<>>
    /\ decision_context = <<"a">>
    /\ current_decision = <<"b">>

(* C9: ClearConversation empties messages whatever they were, sends no     *)
(* request and leaves decision_context and current_decision as they were;  *)
(* a second ClearConversation right after the first finds and leaves an    *)
(* empty history and changes nothing of the session.                       *)
C9_ClearConversationEmpties ==
    [][op' = "ClearConversation" =>
          /\ messages' = <<>>
          /\ pc' = "idle"
          /\ calls' = 0
          /\ decision_context' = decision_context
          /\ current_decision' = current_decision
          /\ op = "ClearConversation" => (messages = <<>> /\ session' = session)]_vars

C9_Witness ==
    /\ Finished("ClearConversation")
    /\ messages = <<>>
    /\ Len(pre) >= 2
    /\ decision_context # <<>>
    /\ current_decision # <<>>

(* C10: SetContext(text) sets decision_context to text; messages (hence    *)
(* Idle or Active) and current_decision stay as they were and no request   *)
(* is sent.                                                                *)
C10_SetContextChangesContextOnly ==
    [][op' = "SetContext" =>
          /\ decision_context' = arg'
          /\ messages' = messages
          /\ (messages' = <<>>) <=> (messages = <<>>)
          /\ current_decision' = current_decision
          /\ pc = "idle"
          /\ pc' = "idle"
          /\ calls' = 0]_vars

C10_Witness ==
    /\ Finished("SetContext")
    /\ arg = <<"b">>
    /\ decision_context = <<"b">>
    /\ current_decision = <<"a">>
    /\ Len(messages) >= 2

(* C11: when the lookup of the bearer token finds none, the run of         *)
(* SubmitMessage or StartNewDecision halts there: no request is sent, the  *)
(* remediation message is reported and the run stores no assistant         *)
(* message.                                                                *)
C11_MissingTokenHalts ==
    hf_token = "missing" =>
        /\ op \in {"SubmitMessage", "StartNewDecision"}
        /\ pc = "idle"
        /\ status = "stopped"
        /\ calls = 0
        /\ response = NoResponse
        /\ errors >= 1
        /\ messages = IF op = "SubmitMessage"
                      THEN Append(pre, [role |-> "user", content |-> arg])
                      ELSE <<>>

C11_Witness ==
    /\ hf_token = "missing"
    /\ op = "SubmitMessage"
    /\ Len(pre) = 2
    /\ Len(messages) = 3
    /\ calls = 0
    /\ errors = 1

\* s starts with p
StartsWith(s, p) == Len(s) >= Len(p) /\ SubSeq(s, 1, Len(p)) = p

(* C12: the system prompt built for a request starts with the fixed        *)
(* template verbatim; for the empty context it is the template and nothing *)
(* more, for a non-empty context c it is the template, then the delimiter  *)
(* "\n\nCurrent decision context: ", then c.  Checked on every context of  *)
(* the model and on the system message of every request the session builds.*)
C12_SystemPromptIsTemplateThenContext ==
    LET template == <<"You are Decidr, an expert decision-making assistant. ...">>
        delimiter == <<"\n\nCurrent decision context: ">>
        Expected(c) == IF c = <<>> THEN template ELSE template \o delimiter \o c
    IN  /\ \A c \in ContextTexts :
              /\ StartsWith(create_system_prompt(c), template)
              /\ create_system_prompt(c) = Expected(c)
        /\ ai_messages # <<>> =>
              /\ StartsWith(ai_messages[1].content, template)
              /\ ai_messages[1].content = Expected(decision_context)

C12_Witness ==
    /\ op = "SubmitMessage"
    /\ pc = "post"
    /\ decision_context = <<>>
    /\ current_decision # <<>>
    /\ ai_messages[1].content = base_prompt
    /\ Len(ai_messages[1].content) = 1

C14_SubmitRequestIsSystemThenHistory ==
    (op = "SubmitMessage" /\ pc = "post") =>
        /\ Len(ai_messages) = Len(messages) + 1
        /\ ai_messages[1] = [role |-> "system",
                             content |-> create_system_prompt(decision_context)]
        /\ Tail(ai_messages) = messages
        /\ "system" \notin Roles(Tail(ai_messages))
        /\ messages = Append(pre, [role |-> "user", content |-> arg])
        /\ ai_messages[Len(ai_messages)] = [role |-> "user", content |-> arg]

C14_Witness ==
    /\ op = "SubmitMessage"
    /\ pc = "post"
    /\ Len(pre) = 2
    /\ pre[1].content = <<"I need help deciding: ", "a">>
    /\ current_decision = <<"a">>
    /\ decision_context = <<"b">>
    /\ ai_messages[1].content = base_prompt \o ContextDelimiter \o <<"b">>

(* C15: every step of a SubmitMessage run and every ExampleClick leaves    *)
(* the history it finds as a prefix of the history it leaves: entries are  *)
(* only added at the end, none is rewritten, moved or removed; only        *)
(* StartNewDecision and ClearConversation shorten the history.             *)
C15_AppendOnlyBetweenClears ==
    [][/\ op' \in {"SubmitMessage", "ExampleClick"} =>
             /\ StartsWith(messages', messages)
             /\ StartsWith(messages', pre')
       /\ ~StartsWith(messages', messages) =>
             op' \in {"StartNewDecision", "ClearConversation"}]_vars

C15_Witness ==
    /\ Finished("SubmitMessage")
    /\ ReturnedTexts # {}
    /\ Len(pre) = 1
    /\ pre[1].content = example_prompt[2]
    /\ Len(messages) = 3
    /\ SubSeq(messages, 1, 1) = pre

(* C16: a non-empty history starts with a user message and every           *)
(* assistant message directly follows a user message, so no two assistant  *)
(* messages are adjacent; two user messages can be.                        *)
C16_AssistantFollowsUser ==
    /\ messages # <<>> => messages[1].role = "user"
    /\ \A i \in 1..Len(messages) :
          messages[i].role = "assistant" => (i > 1 /\ messages[i - 1].role = "user")

C16_Witness ==
    /\ pc = "idle"
    /\ Len(messages) = 3
    /\ messages[1].role = "user"
    /\ messages[2].role = "user"
    /\ messages[3].role = "assistant"

(* C17: only the click on StartNewDecision changes current_decision, and   *)
(* it sets it to the decision context of that moment, empty or not and     *)
(* whatever becomes of the call; every other step leaves it as it was.     *)
C17_OnlyStartSetsCurrentDecision ==
    [][IF pc = "idle" /\ op' = "StartNewDecision"
       THEN current_decision' = decision_context /\ arg' = decision_context
       ELSE /\ current_decision' = current_decision
            /\ op' = "StartNewDecision" => current_decision' = arg']_vars

C17_Witness ==
    /\ Finished("StartNewDecision")
    /\ arg = <<>>
    /\ current_decision = <<>>
    /\ decision_context = <<>>
    /\ Len(pre) = 2
    /\ pre[1].content = <<"I need help deciding: ", "a">>

====
